---- MODULE Spec2Model ----
(***************************************************************************)
(* Tap-tempo estimator and beat-grid generator of the DJ deck.             *)
(*                                                                         *)
(* BeatManager  (src/src/js/core/beat-manager.js) holds the tap session,   *)
(* the BPM and the beat grid.  DJDeck (src/unnamed/part_002) owns one      *)
(* BeatManager and the playback state that the tap handler reads.          *)
(*                                                                         *)
(* Units.  Every time is an integer number of milliseconds: performance    *)
(* .now() is already in ms, and the audio clock, startTime, pauseTime and  *)
(* the track duration (seconds in the code) are held as seconds * 1000.    *)
(* The beat interval is sum(intervals) / n ms, which is not an integer, so *)
(* a marker's time is the exact fraction time / den ms with den = n.       *)
(* Arithmetic is exact; IEEE rounding of the doubles is not modelled.      *)
(***************************************************************************)
EXTENDS Integers, Sequences, FiniteSets

VARIABLES
    now,            \* performance.now(), ms
    audioTime,      \* audioCtx.currentTime, ms
    tapTimes,       \* BeatManager.tapTimes
    lastTapTime,    \* BeatManager.lastTapTime
    bpm,            \* BeatManager.bpm : [kind, val]
    beatMarkers,    \* BeatManager.beatMarkers
    audioBuffer,    \* DJDeck.audioBuffer : [loaded, duration, id]
    audioSource,    \* DJDeck.audioSource is non-null
    isPlaying,      \* DJDeck.isPlaying
    startTime,      \* DJDeck.startTime, ms
    pauseTime,      \* DJDeck.pauseTime, ms
    animationFrame, \* DJDeck.animationFrame : 0 (null) or a handle
    pending,        \* handles of the callbacks requestAnimationFrame holds
    firstTapTime,   \* the local firstTapTime of the last grid generation, ms
    ret,            \* what the last handleTapTempo returned
    hung,           \* the last handler entered a loop that never exits
    discarded,      \* how many taps the last tap dropped from the session
    steady,         \* every tap of the session was made in the playback that still runs,
                    \* with no play, pause, seek, load or stop since the first of them
    deckOps,        \* how many play, pause, seek and load operations have run
    basePlaybackRate, \* DJDeck.basePlaybackRate, in percent (speedSlider.value)
    audioPos,       \* where in the track the audio is, ms: what is heard while playing,
                    \* the offset the next start() is given while not
    regenerated,    \* generateBeatsFromManualTaps was called again since the last tap
    file,           \* the File of the last loadTrack call that was turned down
    shownError,     \* the message of the last AudioContextManager.showError, "" if none
    other           \* the fields of the other DJDeck of the page

vars == << now, audioTime, tapTimes, lastTapTime, bpm, beatMarkers, audioBuffer,
           audioSource, isPlaying, startTime, pauseTime, animationFrame, pending,
           firstTapTime, ret, hung, discarded, steady, deckOps,
           basePlaybackRate, audioPos, regenerated, file, shownError, other >>

\* What the handlers of the play button, the waveform, the tap button and the
\* redraw callbacks never write.
pageVars == << basePlaybackRate, file, shownError >>

beatVars == << tapTimes, lastTapTime, bpm, beatMarkers, firstTapTime, ret, hung,
              discarded, regenerated >>
deckVars == << audioBuffer, audioSource, isPlaying, startTime, pauseTime,
               animationFrame, pending >>

----------------------------------------------------------------------------
\* Bounds of the model.

MaxNow == 4000
MaxTaps == 5
MaxPending == 2
MaxDeckOps == 3
MaxDeckRun == 5
MaxPairNow == 1500
MaxPairTaps == 4
MaxPairOps == 3
MaxFileOps == 3

\* The times that may pass between two events, ms.
Gaps == {500}
\* performance.now() when the first interaction creates the audio context, ms.
InitNows == {500}
\* Durations of the tracks that can be loaded, ms.
Durations == {1000}
\* Click positions on the waveform, in quarters of its width.
ClickQuarters == {2}

----------------------------------------------------------------------------
\* JavaScript numbers that are not finite integers.

Num(n) == [kind |-> "num", val |-> n]
NaN == [kind |-> "NaN", val |-> 0]
Infinity == [kind |-> "Infinity", val |-> 0]

\* a % b of JavaScript for b > 0: the sign follows the dividend.
JsMod(a, b) == IF a >= 0 THEN a % b ELSE 0 - ((0 - a) % b)

\* Math.round(p / q) for p >= 0, q > 0: the nearest integer, halves upwards.
MathRound(p, q) == (2 * p + q) \div (2 * q)

RECURSIVE Sum(_)
Sum(s) == IF s = << >> THEN 0 ELSE Head(s) + Sum(Tail(s))

----------------------------------------------------------------------------
\* BeatManager: the tap-tempo estimator.

\* The idle threshold of handleTapTempo, ms.
IdleThreshold == 3000

\* Variant of SessionExpired that also restarts at a gap of exactly the threshold.
SessionExpiredAtThreshold(t, last) == t - last >= IdleThreshold

\* Variant of SessionExpired that lets a session idle half a second longer.
SessionExpiredLate(t, last) == t - last > IdleThreshold + 500

\* handleTapTempo: "if (now - this.lastTapTime > 3000)".
SessionExpired(t, last) == t - last > IdleThreshold

\* Variant of RestartSession that keeps the BPM of the discarded session.
RestartSessionKeepBpm(taps, b) == [tapTimes |-> << >>, bpm |-> b]

\* handleTapTempo: the body of the restart branch, tapTimes = [] and bpm = 0.
RestartSession(taps, b) == [tapTimes |-> << >>, bpm |-> Num(0)]

\* The consecutive differences tapTimes[i] - tapTimes[i-1].
Intervals(taps) == [i \in 1 .. (Len(taps) - 1) |-> taps[i + 1] - taps[i]]

\* Insert v into the ascending sequence s, after the elements equal to it.
RECURSIVE InsertAsc(_, _)
InsertAsc(s, v) ==
    IF s = << >> THEN << v >>
    ELSE IF v < Head(s) THEN << v >> \o s
    ELSE << Head(s) >> \o InsertAsc(Tail(s), v)

\* [...intervals].sort((a, b) => a - b)
RECURSIVE SortAsc(_)
SortAsc(s) == IF s = << >> THEN << >> ELSE InsertAsc(SortAsc(SubSeq(s, 1, Len(s) - 1)), s[Len(s)])

\* Twice the median filterOutliers computes (twice, to stay in the integers).
\* mid = floor(length / 2) is a 0-based index: sorted[mid] is element mid + 1 here.
Median2(intervals) ==
    LET sortedIntervals == SortAsc(intervals)
        mid == Len(sortedIntervals) \div 2
    IN  IF Len(sortedIntervals) % 2 = 0
        THEN sortedIntervals[mid] + sortedIntervals[mid + 1]
        ELSE 2 * sortedIntervals[mid + 1]

\* val >= median * 0.7 && val <= median * 1.3, with median = median2 / 2.
WithinBand(val, median2) == 20 * val >= 7 * median2 /\ 20 * val <= 13 * median2

\* Variant of filterOutliers that keeps every interval.
filterOutliersKeepAll(intervals) == intervals

\* Variant of filterOutliers that already filters 3 intervals.
filterOutliersFromThree(intervals) ==
    IF Len(intervals) <= 2 THEN intervals
    ELSE SelectSeq(intervals, LAMBDA val : WithinBand(val, Median2(intervals)))

\* Variant of filterOutliers that measures the band from the mean, not the median.
filterOutliersByMean(intervals) ==
    IF Len(intervals) <= 3 THEN intervals
    ELSE SelectSeq(intervals, LAMBDA val :
            20 * val * Len(intervals) >= 14 * Sum(intervals)
            /\ 20 * val * Len(intervals) <= 26 * Sum(intervals))

filterOutliers(intervals) ==
    IF Len(intervals) <= 3 THEN intervals
    ELSE SelectSeq(intervals, LAMBDA val : WithinBand(val, Median2(intervals)))

\* calculateTapTempo: Math.round(60000 / (sum / length)) of the kept intervals.
\* No interval kept: 0 / 0 is NaN and Math.round(NaN) is NaN.
\* Sum 0: 60000 / 0 is Infinity and Math.round(Infinity) is Infinity.
calculateTapTempo(taps) ==
    LET validIntervals == filterOutliers(Intervals(taps))
    IN  IF Len(validIntervals) = 0 THEN NaN
        ELSE IF Sum(validIntervals) = 0 THEN Infinity
        ELSE Num(MathRound(60000 * Len(validIntervals), Sum(validIntervals)))

----------------------------------------------------------------------------
\* BeatManager: the beat-grid generator.

\* A beat marker; its time is time / den ms.  strength (1.0) and isKick (false)
\* are the same in every marker and are left out.
Marker(t, d, main, pos) == [time |-> t, den |-> d, isMainBeat |-> main, position |-> pos]

\* Variant of FirstTapTime that anchors the grid at the newest tap.
FirstTapTimeFromLastTap(taps, playing, start, currentTime) ==
    IF playing THEN taps[Len(taps)] - (currentTime - start) ELSE 0

\* const firstTapTime = isPlaying ? tapTimes[0] / 1000 - (currentTime - startTime) : 0
FirstTapTime(taps, playing, start, currentTime) ==
    IF playing THEN taps[1] - (currentTime - start) ELSE 0

\* Variant of NormalizedPosition that leaves the position as it is.
NormalizedPositionRaw(beatPosition) == beatPosition

\* let normalizedPosition = beatPosition;
\* while (normalizedPosition <= 0) normalizedPosition += 4;
RECURSIVE NormalizedPosition(_)
NormalizedPosition(beatPosition) ==
    IF beatPosition <= 0 THEN NormalizedPosition(beatPosition + 4) ELSE beatPosition

\* Variant of BackwardPass that keeps a marker only "if (time > 0)".
RECURSIVE BackwardPassDropZero(_, _, _, _)
BackwardPassDropZero(time, beatPosition, step, den) ==
    IF ~(time > 0) THEN [diverged |-> FALSE, markers |-> << >>]
    ELSE IF step <= 0 THEN [diverged |-> TRUE, markers |-> << >>]
    ELSE LET t == time - step
         IN  IF t > 0
             THEN LET rest == BackwardPassDropZero(t, beatPosition - 1, step, den)
                      isMainBeat == JsMod(NormalizedPosition(beatPosition - 1), 4) = 1
                  IN  [diverged |-> rest.diverged,
                       markers |-> << Marker(t, den, isMainBeat, beatPosition - 1) >>
                                   \o rest.markers]
             ELSE BackwardPassDropZero(t, beatPosition, step, den)

\* Variant of BackwardPass that tests the position for a main beat before
\* "beatPosition--" instead of after it.
RECURSIVE BackwardPassPhaseShift(_, _, _, _)
BackwardPassPhaseShift(time, beatPosition, step, den) ==
    IF ~(time > 0) THEN [diverged |-> FALSE, markers |-> << >>]
    ELSE IF step <= 0 THEN [diverged |-> TRUE, markers |-> << >>]
    ELSE LET t == time - step
         IN  IF t >= 0
             THEN LET rest == BackwardPassPhaseShift(t, beatPosition - 1, step, den)
                      isMainBeat == JsMod(NormalizedPosition(beatPosition), 4) = 1
                  IN  [diverged |-> rest.diverged,
                       markers |-> << Marker(t, den, isMainBeat, beatPosition - 1) >>
                                   \o rest.markers]
             ELSE BackwardPassPhaseShift(t, beatPosition, step, den)

\* The loop "while (time > 0)" of the backward pass, entered with the loop
\* variables time and beatPosition.  With step <= 0 the loop variable never
\* decreases and the condition stays true: the loop does not exit.
RECURSIVE BackwardPass(_, _, _, _)
BackwardPass(time, beatPosition, step, den) ==
    IF ~(time > 0) THEN [diverged |-> FALSE, markers |-> << >>]
    ELSE IF step <= 0 THEN [diverged |-> TRUE, markers |-> << >>]
    ELSE LET t == time - step
         IN  IF t >= 0
             THEN LET rest == BackwardPass(t, beatPosition - 1, step, den)
                      isMainBeat == JsMod(NormalizedPosition(beatPosition - 1), 4) = 1
                  IN  [diverged |-> rest.diverged,
                       markers |-> << Marker(t, den, isMainBeat, beatPosition - 1) >>
                                   \o rest.markers]
             ELSE BackwardPass(t, beatPosition, step, den)

\* Variant of ForwardPass whose loop runs "while (time <= trackDuration)".
RECURSIVE ForwardPassInclusive(_, _, _, _, _)
ForwardPassInclusive(time, beatPosition, step, den, trackDuration) ==
    IF ~(time <= trackDuration) THEN [diverged |-> FALSE, markers |-> << >>]
    ELSE IF step <= 0 THEN [diverged |-> TRUE, markers |-> << >>]
    ELSE LET rest == ForwardPassInclusive(time + step, beatPosition + 1, step, den,
                                          trackDuration)
             isMainBeat == JsMod(beatPosition, 4) = 1
         IN  [diverged |-> rest.diverged,
              markers |-> << Marker(time, den, isMainBeat, beatPosition) >> \o rest.markers]

\* The loop "while (time < trackDuration)" of the forward pass.  With step <= 0
\* time never reaches trackDuration: the loop does not exit.
RECURSIVE ForwardPass(_, _, _, _, _)
ForwardPass(time, beatPosition, step, den, trackDuration) ==
    IF ~(time < trackDuration) THEN [diverged |-> FALSE, markers |-> << >>]
    ELSE IF step <= 0 THEN [diverged |-> TRUE, markers |-> << >>]
    ELSE LET rest == ForwardPass(time + step, beatPosition + 1, step, den, trackDuration)
             isMainBeat == JsMod(beatPosition, 4) = 1
         IN  [diverged |-> rest.diverged,
              markers |-> << Marker(time, den, isMainBeat, beatPosition) >> \o rest.markers]

\* Insert m into the sequence s ascending by time, after the markers of equal time.
RECURSIVE InsertByTime(_, _)
InsertByTime(s, m) ==
    IF s = << >> THEN << m >>
    ELSE IF m.time < Head(s).time THEN << m >> \o s
    ELSE << Head(s) >> \o InsertByTime(Tail(s), m)

\* Variant of SortByTime that leaves the markers in the order of generation.
SortByTimeOmitted(markers) == markers

\* this.beatMarkers.sort((a, b) => a.time - b.time): a stable sort.
RECURSIVE SortByTime(_)
SortByTime(markers) ==
    IF markers = << >> THEN << >>
    ELSE InsertByTime(SortByTime(SubSeq(markers, 1, Len(markers) - 1)), markers[Len(markers)])

\* Variant of ClearedBeatMarkers that keeps the markers of the grid before.
BeatMarkersKept(markers) == markers

\* "this.beatMarkers = []" at the head of generateBeatsFromManualTaps: what is
\* left of the markers that were there before.
ClearedBeatMarkers(markers) == << >>

\* generateBeatsFromManualTaps, called with at least 2 taps and a buffer while
\* this.beatMarkers holds markers.
\* beatInterval is Sum(intervals) / den ms with den = intervals.length; every
\* time of the two passes is held multiplied by den.
generateBeatsFromManualTaps(markers, taps, buffer, playing, start, currentTime) ==
    LET intervals == Intervals(taps)
        den == Len(intervals)
        step == Sum(intervals)
        anchor == FirstTapTime(taps, playing, start, currentTime)
        trackDuration == buffer.duration
        back == IF anchor > 0
                THEN BackwardPass(anchor * den, 1, step, den)
                ELSE [diverged |-> FALSE, markers |-> << >>]
        forw == IF back.diverged
                THEN [diverged |-> TRUE, markers |-> << >>]
                ELSE ForwardPass(anchor * den, 1, step, den, trackDuration * den)
    IN  [firstTapTime |-> anchor,
         diverged |-> forw.diverged,
         markers |-> IF forw.diverged THEN << >>
                     ELSE SortByTime(ClearedBeatMarkers(markers) \o back.markers
                                     \o forw.markers)]

----------------------------------------------------------------------------
\* WaveformRenderer: the beat markers of the zoom view.

\* const windowDuration = 4, in ms.
windowDuration == 4000

\* Variant of VisibleBeats that leaves out a beat at the very end of the window.
VisibleBeatsBeforeEnd(markers, currentTime) ==
    SelectSeq(markers, LAMBDA beat :
        /\ beat.time >= (currentTime - windowDuration \div 2) * beat.den
        /\ beat.time < (currentTime + windowDuration \div 2) * beat.den)

\* beatMarkers.filter(beat => beat.time >= startTime && beat.time <= endTime)
\* with startTime = currentTime - windowDuration/2 and endTime = currentTime +
\* windowDuration/2; a marker's time is time / den.
VisibleBeats(markers, currentTime) ==
    SelectSeq(markers, LAMBDA beat :
        /\ beat.time >= (currentTime - windowDuration \div 2) * beat.den
        /\ beat.time <= (currentTime + windowDuration \div 2) * beat.den)

\* The marker elements drawZoomedWaveform appends to the zoom container, in
\* order: the beat, its class, and relativePosition = (beat.time - startTime) /
\* windowDuration as the fraction left / leftDen (style.left is that times the
\* width of the canvas).  Without a buffer it returns before drawing any.
drawZoomedWaveform(buffer, currentTime, markers) ==
    IF ~buffer.loaded THEN << >>
    ELSE LET visibleBeats == VisibleBeats(markers, currentTime)
         IN  [i \in DOMAIN visibleBeats |->
                [time |-> visibleBeats[i].time,
                 den |-> visibleBeats[i].den,
                 main |-> visibleBeats[i].isMainBeat,
                 left |-> visibleBeats[i].time
                            - (currentTime - windowDuration \div 2) * visibleBeats[i].den,
                 leftDen |-> windowDuration * visibleBeats[i].den]]

----------------------------------------------------------------------------
\* The state after construction: new BeatManager, new DJDeck, and the audio
\* context just created by the first interaction with the page.

NoBuffer == [loaded |-> FALSE, duration |-> 0, id |-> 0]

\* No file was turned down yet.
NoFile == [size |-> 0, type |-> "", readable |-> TRUE, decodable |-> TRUE]

\* The fields of a DJDeck and of the BeatManager it constructs for itself,
\* as the two constructors leave them.
NewDeck ==
    [tapTimes |-> << >>, lastTapTime |-> 0, bpm |-> Num(0), beatMarkers |-> << >>,
     audioBuffer |-> NoBuffer, audioSource |-> FALSE, isPlaying |-> FALSE,
     startTime |-> 0, pauseTime |-> 0, animationFrame |-> 0, pending |-> {},
     firstTapTime |-> 0, ret |-> FALSE, discarded |-> 0, steady |-> FALSE,
     deckOps |-> 0, basePlaybackRate |-> 100, audioPos |-> 0, regenerated |-> FALSE]

\* The fields of the deck the handlers of the model act on.
ThisDeck ==
    [tapTimes |-> tapTimes, lastTapTime |-> lastTapTime, bpm |-> bpm,
     beatMarkers |-> beatMarkers, audioBuffer |-> audioBuffer,
     audioSource |-> audioSource, isPlaying |-> isPlaying, startTime |-> startTime,
     pauseTime |-> pauseTime, animationFrame |-> animationFrame, pending |-> pending,
     firstTapTime |-> firstTapTime, ret |-> ret, discarded |-> discarded,
     steady |-> steady, deckOps |-> deckOps, basePlaybackRate |-> basePlaybackRate,
     audioPos |-> audioPos, regenerated |-> regenerated]

Init ==
    /\ now \in InitNows
    /\ audioTime = 0
    /\ tapTimes = << >>
    /\ lastTapTime = 0
    /\ bpm = Num(0)
    /\ beatMarkers = << >>
    /\ audioBuffer = NoBuffer
    /\ audioSource = FALSE
    /\ isPlaying = FALSE
    /\ startTime = 0
    /\ pauseTime = 0
    /\ animationFrame = 0
    /\ pending = {}
    /\ firstTapTime = 0
    /\ ret = FALSE
    /\ hung = FALSE
    /\ discarded = 0
    /\ steady = FALSE
    /\ deckOps = 0
    /\ basePlaybackRate = 100
    /\ audioPos = 0
    /\ regenerated = FALSE
    /\ file = NoFile
    /\ shownError = ""
    /\ other = NewDeck

\* Where the audio of a deck is after d ms more: the source node plays
\* playbackRate seconds of the buffer per second and ends with the buffer.
Played(pos, playing, rate, buffer, d) ==
    IF playing
    THEN LET p == pos + (d * rate) \div 100
         IN  IF p > buffer.duration THEN buffer.duration ELSE p
    ELSE pos

\* Time passes: both clocks run at the same rate.
Advance(d) ==
    /\ ~hung
    /\ now + d <= MaxNow
    /\ now' = now + d
    /\ audioTime' = audioTime + d
    /\ audioPos' = Played(audioPos, isPlaying, basePlaybackRate, audioBuffer, d)
    /\ other' = [other EXCEPT !.audioPos =
                    Played(other.audioPos, other.isPlaying, other.basePlaybackRate,
                           other.audioBuffer, d)]
    /\ UNCHANGED << beatVars, deckVars, steady, deckOps, pageVars >>

\* The click listener of tapTempoBtn: BeatManager.handleTapTempo with the
\* deck's audioBuffer, isPlaying, startTime and the audio clock.  What follows
\* the call in the listener only draws.
TapTempoClick ==
    /\ ~hung
    /\ SessionExpired(now, lastTapTime) \/ Len(tapTimes) < MaxTaps
    /\ LET kept == IF SessionExpired(now, lastTapTime)
                   THEN RestartSession(tapTimes, bpm)
                   ELSE [tapTimes |-> tapTimes, bpm |-> bpm]
           taps == Append(kept.tapTimes, now)
           generate == audioBuffer.loaded /\ Len(taps) >= 2
           grid == generateBeatsFromManualTaps(beatMarkers, taps, audioBuffer,
                                               isPlaying, startTime, audioTime)
       IN  /\ tapTimes' = taps
           /\ lastTapTime' = now
           /\ regenerated' = FALSE
           /\ discarded' = Len(tapTimes) - Len(kept.tapTimes)
           /\ steady' = (isPlaying /\ (kept.tapTimes = << >> \/ steady))
           /\ bpm' = IF Len(taps) >= 4 THEN calculateTapTempo(taps) ELSE kept.bpm
           /\ IF generate
              THEN /\ beatMarkers' = grid.markers
                   /\ firstTapTime' = grid.firstTapTime
                   /\ hung' = grid.diverged
                   /\ ret' = ~grid.diverged
              ELSE /\ ret' = FALSE
                   /\ UNCHANGED << beatMarkers, firstTapTime, hung >>
    /\ UNCHANGED << now, audioTime, deckVars, deckOps, pageVars, audioPos, other >>

\* requestAnimationFrame: a handle no pending callback has.  The handle is stored
\* in animationFrame at once, so a handle that was used before names no other callback.
NewHandle(pend) == CHOOSE h \in 1 .. (MaxPending + 1) : h \notin pend

\* DJDeck.stop, as updatePlaybackPosition calls it at the end of the track, with
\* the callbacks pend pending; source says whether audioSource is set and
\* playing what isPlaying is at the call.
\* cancelAnimationFrame drops the callback of the stored handle, if it is pending.
Stop(pend, source, playing) ==
    IF source
    THEN /\ isPlaying' = FALSE
         /\ pauseTime' = 0
         /\ pending' = pend \ {animationFrame}
         /\ animationFrame' = 0
    ELSE /\ pending' = pend
         /\ isPlaying' = playing
         /\ UNCHANGED << pauseTime, animationFrame >>

\* Variant of UpdatePlaybackPosition without the test of isPlaying: it draws and
\* requests the next frame on a deck that is not playing.
UpdatePlaybackPositionUnguarded(pend, playing, start, source) ==
    IF ~audioBuffer.loaded
    THEN /\ pending' = pend \ {animationFrame}
         /\ animationFrame' = 0
         /\ isPlaying' = playing
         /\ UNCHANGED pauseTime
    ELSE IF audioTime - start >= audioBuffer.duration
    THEN Stop(pend, source, playing)
    ELSE /\ animationFrame' = NewHandle(pend)
         /\ pending' = pend \cup {NewHandle(pend)}
         /\ isPlaying' = playing
         /\ UNCHANGED pauseTime

\* DJDeck.updatePlaybackPosition with the callbacks pend pending, the deck
\* playing or not (playing), playback started at start and audioSource set or
\* not (source).
UpdatePlaybackPosition(pend, playing, start, source) ==
    IF ~playing \/ ~audioBuffer.loaded
    THEN /\ pending' = pend \ {animationFrame}
         /\ animationFrame' = 0
         /\ isPlaying' = playing
         /\ UNCHANGED pauseTime
    ELSE IF audioTime - start >= audioBuffer.duration
    THEN Stop(pend, source, playing)
    ELSE /\ animationFrame' = NewHandle(pend)
         /\ pending' = pend \cup {NewHandle(pend)}
         /\ isPlaying' = playing
         /\ UNCHANGED pauseTime

\* Variant of Play that always starts the track from its beginning.
PlayFromStart ==
    /\ ~hung
    /\ deckOps' = deckOps + 1
    /\ audioBuffer.loaded /\ ~isPlaying
    /\ Cardinality(pending) < MaxPending
    /\ audioSource' = TRUE
    /\ startTime' = audioTime
    /\ UpdatePlaybackPosition(pending, TRUE, audioTime, TRUE)
    /\ audioPos' = 0
    /\ steady' = FALSE
    /\ UNCHANGED << now, audioTime, audioBuffer, beatVars, pageVars, other >>

\* DJDeck.play, from the play button while not playing.
Play ==
    /\ ~hung
    /\ deckOps' = deckOps + 1
    /\ audioBuffer.loaded /\ ~isPlaying
    /\ Cardinality(pending) < MaxPending
    /\ audioSource' = TRUE
    /\ startTime' = audioTime - pauseTime
    /\ UpdatePlaybackPosition(pending, TRUE, audioTime - pauseTime, TRUE)
    /\ audioPos' = IF isPlaying' THEN pauseTime ELSE 0
    /\ steady' = FALSE
    /\ UNCHANGED << now, audioTime, audioBuffer, beatVars, pageVars, other >>

\* Variant of Pause that drops the beat grid as it redraws.
PauseDroppingGrid ==
    /\ ~hung
    /\ deckOps' = deckOps + 1
    /\ audioBuffer.loaded /\ isPlaying
    /\ isPlaying' = FALSE
    /\ pending' = pending \ {animationFrame}
    /\ animationFrame' = 0
    /\ pauseTime' = audioTime - startTime
    /\ steady' = FALSE
    /\ beatMarkers' = << >>
    /\ UNCHANGED << now, audioTime, audioBuffer, audioSource, startTime, tapTimes,
                    lastTapTime, bpm, firstTapTime, ret, hung, discarded, regenerated,
                    pageVars, audioPos, other >>

\* DJDeck.pause, from the play button while playing.
Pause ==
    /\ ~hung
    /\ deckOps' = deckOps + 1
    /\ audioBuffer.loaded /\ isPlaying
    /\ isPlaying' = FALSE
    /\ pending' = pending \ {animationFrame}
    /\ animationFrame' = 0
    /\ pauseTime' = audioTime - startTime
    /\ steady' = FALSE
    /\ UNCHANGED << now, audioTime, audioBuffer, audioSource, startTime, beatVars,
                    pageVars, audioPos, other >>

\* The callback requestAnimationFrame holds under handle h fires.
AnimationFrame(h) ==
    /\ ~hung
    /\ UNCHANGED deckOps
    /\ h \in pending
    /\ UpdatePlaybackPosition(pending \ {h}, isPlaying, startTime, audioSource)
    /\ steady' = (steady /\ isPlaying')
    /\ audioPos' = IF isPlaying /\ ~isPlaying' THEN 0 ELSE audioPos
    /\ UNCHANGED << now, audioTime, audioBuffer, audioSource, startTime, beatVars,
                    pageVars, other >>

\* The click listener of waveformCanvas: jump to q quarters of the track.
WaveformClick(q) ==
    /\ ~hung
    /\ deckOps' = deckOps + 1
    /\ audioBuffer.loaded
    /\ LET jumpTime == (q * audioBuffer.duration) \div 4
       IN  /\ startTime' = audioTime - jumpTime
           /\ pauseTime' = IF isPlaying THEN pauseTime ELSE jumpTime
           /\ audioPos' = jumpTime
    /\ steady' = FALSE
    /\ UNCHANGED << now, audioTime, audioBuffer, audioSource, isPlaying,
                    animationFrame, pending, beatVars, pageVars, other >>

\* DJDeck.loadTrack, from the decoded buffer on: a track of duration d ms.
\* Every decodeAudioData yields a new AudioBuffer object; id tells them apart.
DecodedTrack(d) ==
    /\ ~hung
    /\ deckOps' = deckOps + 1
    /\ audioBuffer' = [loaded |-> TRUE, duration |-> d, id |-> audioBuffer.id + 1]
    /\ isPlaying' = FALSE
    /\ pauseTime' = 0
    /\ beatMarkers' = << >>
    /\ audioPos' = 0
    /\ steady' = FALSE
    /\ UNCHANGED << now, audioTime, audioSource, startTime, animationFrame, pending,
                    tapTimes, lastTapTime, bpm, firstTapTime, ret, hung, discarded,
                    regenerated, other >>

LoadTrack(d) ==
    /\ DecodedTrack(d)
    /\ UNCHANGED pageVars

\* DJDeck.loadTrack from its first line: the checks of the file before the
\* buffer is decoded.  A file is its size in bytes, its MIME type, and whether
\* file.arrayBuffer() and decodeAudioData succeed on it.
MAX_FILE_SIZE == 104857600

validMimeTypes ==
    {"audio/mpeg", "audio/mp3", "audio/wav", "audio/wave", "audio/x-wav", "audio/ogg",
     "audio/mp4", "audio/x-m4a", "audio/aac", "audio/flac", "audio/x-flac", "audio/webm"}

\* Variant of FileTooLarge that also refuses a file of exactly the limit.
FileTooLargeInclusive(f) == f.size >= MAX_FILE_SIZE

\* "if (file.size > MAX_FILE_SIZE)"
FileTooLarge(f) == f.size > MAX_FILE_SIZE

\* The message loadTrack shows for file f, "" when it shows none: the checks
\* in the order of the code, each returning at its showError.
LoadError(f) ==
    IF FileTooLarge(f) THEN "File too large"
    ELSE IF f.type \notin validMimeTypes THEN "Invalid file type"
    ELSE IF ~f.readable THEN "Failed to read file"
    ELSE IF ~f.decodable THEN "Failed to decode audio file"
    ELSE ""

Files ==
    [size : {MAX_FILE_SIZE, MAX_FILE_SIZE + 1},
     type : {"audio/mpeg", "video/mp4", ""},
     readable : BOOLEAN,
     decodable : BOOLEAN]

\* The change listener of the file input: loadTrack(f), where a decodable f
\* holds d ms of audio.
LoadFile(f, d) ==
    /\ file' = f
    /\ IF LoadError(f) = ""
       THEN /\ DecodedTrack(d)
            /\ UNCHANGED << basePlaybackRate, shownError >>
       ELSE /\ ~hung
            /\ shownError' = LoadError(f)
            /\ UNCHANGED << now, audioTime, beatVars, deckVars, steady, deckOps,
                            audioPos, basePlaybackRate, other >>

\* DJDeck.resize, from the resize listener of the window: it sizes the
\* canvases and draws; no field of the deck or of its BeatManager is written.
Resize ==
    /\ ~hung
    /\ UNCHANGED vars

\* What updatePlaybackPosition has drawZoomedWaveform draw in this state: it
\* passes elapsed = audioCtx.currentTime - startTime and getBeatMarkers().
ZoomView == drawZoomedWaveform(audioBuffer, audioTime - startTime, beatMarkers)

Next ==
    \/ \E d \in Gaps : Advance(d)
    \/ TapTempoClick
    \/ \E h \in pending : AnimationFrame(h)
    \/ Resize
    \/ deckOps < MaxDeckOps /\ Play
    \/ deckOps < MaxDeckOps /\ Pause
    \/ deckOps < MaxDeckOps /\ \E q \in ClickQuarters : WaveformClick(q)
    \/ deckOps < MaxDeckOps /\ \E d \in Durations : LoadTrack(d)

Spec == Init /\ [][Next]_vars

\* The deck without its tap button.  No tap handler writes a field of the deck
\* (TapTempoClick leaves deckVars unchanged), so what the deck's scheduling
\* does is decided here, over longer runs of deck operations.
DeckNext ==
    \/ \E d \in Gaps : Advance(d)
    \/ \E h \in pending : AnimationFrame(h)
    \/ Resize
    \/ deckOps < MaxDeckRun /\ Play
    \/ deckOps < MaxDeckRun /\ Pause
    \/ deckOps < MaxDeckRun /\ \E q \in ClickQuarters : WaveformClick(q)
    \/ deckOps < MaxDeckRun /\ \E d \in Durations : LoadTrack(d)

DeckSpec == Init /\ [][DeckNext]_vars

----------------------------------------------------------------------------
\* The speed slider.  Its input listener stores value / 100 in
\* basePlaybackRate and updatePlaybackRate writes basePlaybackRate *
\* pitchBendMultiplier to the playing source; the pitch bend stays at its
\* rest value 1.0 here, so the rate of the source is basePlaybackRate (kept
\* in percent, the unit of the slider).
SpeedValues == {50, 100}

SetSpeed(v) ==
    /\ ~hung
    /\ basePlaybackRate' = v
    /\ UNCHANGED << now, audioTime, beatVars, deckVars, steady, deckOps, audioPos,
                    file, shownError, other >>

RateNext ==
    \/ \E d \in Gaps : Advance(d)
    \/ \E h \in pending : AnimationFrame(h)
    \/ \E v \in SpeedValues : SetSpeed(v)
    \/ deckOps < MaxDeckRun /\ Play
    \/ deckOps < MaxDeckRun /\ Pause
    \/ deckOps < MaxDeckRun /\ \E q \in ClickQuarters : WaveformClick(q)
    \/ deckOps < MaxDeckRun /\ \E d \in Durations : LoadTrack(d)

RateSpec == Init /\ [][RateNext]_vars

----------------------------------------------------------------------------
\* The deck with its file input: tracks arrive as files, good and bad.
FileNext ==
    \/ \E d \in Gaps : Advance(d)
    \/ \E h \in pending : AnimationFrame(h)
    \/ deckOps < MaxFileOps /\ Play
    \/ deckOps < MaxFileOps /\ Pause
    \/ deckOps < MaxFileOps /\ \E q \in ClickQuarters : WaveformClick(q)
    \/ deckOps < MaxFileOps /\ \E f \in Files, d \in Durations : LoadFile(f, d)

FileSpec == Init /\ [][FileNext]_vars

----------------------------------------------------------------------------
\* The page: app.js constructs two decks, DJDeck(1) and DJDeck(2).  The
\* variables of the handlers are the fields of the deck an event goes to and
\* other holds the fields of the deck beside it; Swap turns to the other deck,
\* so an event on it is Swap followed by the handler.  The clocks, the error
\* display and the one thread of the page (hung) belong to both.

Swap ==
    /\ ~hung
    /\ tapTimes' = other.tapTimes
    /\ lastTapTime' = other.lastTapTime
    /\ bpm' = other.bpm
    /\ beatMarkers' = other.beatMarkers
    /\ audioBuffer' = other.audioBuffer
    /\ audioSource' = other.audioSource
    /\ isPlaying' = other.isPlaying
    /\ startTime' = other.startTime
    /\ pauseTime' = other.pauseTime
    /\ animationFrame' = other.animationFrame
    /\ pending' = other.pending
    /\ firstTapTime' = other.firstTapTime
    /\ ret' = other.ret
    /\ discarded' = other.discarded
    /\ steady' = other.steady
    /\ deckOps' = other.deckOps
    /\ basePlaybackRate' = other.basePlaybackRate
    /\ audioPos' = other.audioPos
    /\ regenerated' = other.regenerated
    /\ other' = ThisDeck
    /\ UNCHANGED << now, audioTime, hung, file, shownError >>

\* The fields of the BeatManager of a deck.
BeatManagerOf(deck) ==
    [tapTimes |-> deck.tapTimes, lastTapTime |-> deck.lastTapTime, bpm |-> deck.bpm,
     beatMarkers |-> deck.beatMarkers]

\* Variant of OtherBeatManager in which the two decks hold one BeatManager.
OtherBeatManagerShared(o, this) == BeatManagerOf(this)

\* "this.beatManager = new BeatManager(this.tapTempoBtn)": the BeatManager of
\* the other deck o is the one o constructed, not the one of this deck.
OtherBeatManager(o, this) == BeatManagerOf(o)

PairNext ==
    \/ \E d \in Gaps : now + d <= MaxPairNow /\ Advance(d)
    \/ Len(tapTimes) + Len(other.tapTimes) < MaxPairTaps /\ TapTempoClick
    \/ \E h \in pending : AnimationFrame(h)
    \/ deckOps + other.deckOps < MaxPairOps /\ Play
    \/ deckOps + other.deckOps < MaxPairOps /\ Pause
    \/ deckOps + other.deckOps < MaxPairOps /\ \E q \in ClickQuarters : WaveformClick(q)
    \/ deckOps + other.deckOps < MaxPairOps /\ \E d \in Durations : LoadTrack(d)
    \/ Swap

PairSpec == Init /\ [][PairNext]_vars

----------------------------------------------------------------------------
\* BeatManager.handleTapTempo as a function of its arguments: a new
\* BeatManager that is handed any audioBuffer, isPlaying and startTime, a
\* duration below or at zero included, with the audio clock as currentTime.

\* audioBuffer.duration of the buffers handed to the handler, ms.
ArgDurations == {0 - 500, 0, 1000, 3000}
\* startTime handed to the handler, ms.
ArgStartTimes == {0, 500}

ArgInit ==
    /\ now \in InitNows
    /\ audioTime = 0
    /\ tapTimes = << >>
    /\ lastTapTime = 0
    /\ bpm = Num(0)
    /\ beatMarkers = << >>
    /\ audioBuffer \in {NoBuffer}
            \cup {[loaded |-> TRUE, duration |-> d, id |-> 1] : d \in ArgDurations}
    /\ audioSource = FALSE
    /\ isPlaying \in BOOLEAN
    /\ startTime \in ArgStartTimes
    /\ pauseTime = 0
    /\ animationFrame = 0
    /\ pending = {}
    /\ firstTapTime = 0
    /\ ret = FALSE
    /\ hung = FALSE
    /\ discarded = 0
    /\ steady = FALSE
    /\ deckOps = 0
    /\ basePlaybackRate = 100
    /\ audioPos = 0
    /\ regenerated = FALSE
    /\ file = NoFile
    /\ shownError = ""
    /\ other = NewDeck

\* generateBeatsFromManualTaps called once more by itself, with the session
\* as it is and the arguments the deck would pass now.  With fewer than 2 taps
\* or no buffer it returns at once.
GenerateAgain ==
    /\ ~hung
    /\ audioBuffer.loaded /\ Len(tapTimes) >= 2
    /\ LET grid == generateBeatsFromManualTaps(beatMarkers, tapTimes, audioBuffer,
                                               isPlaying, startTime, audioTime)
       IN  /\ beatMarkers' = grid.markers
           /\ firstTapTime' = grid.firstTapTime
           /\ hung' = grid.diverged
    /\ regenerated' = TRUE
    /\ UNCHANGED << now, audioTime, tapTimes, lastTapTime, bpm, ret, discarded,
                    deckVars, steady, deckOps, pageVars, audioPos, other >>

ArgNext ==
    \/ \E d \in Gaps : Advance(d)
    \/ TapTempoClick
    \/ GenerateAgain

ArgSpec == ArgInit /\ [][ArgNext]_vars

----------------------------------------------------------------------------
\* Properties of the tap session and the tempo estimate.

\* A step of the tap handler: the only step that changes tapTimes, and it
\* always changes it.
TapStep == tapTimes' # tapTimes

\* C1: a tap more than 3000 ms after the previous one leaves the session
\* holding exactly that tap; any other tap appends to the session, the earlier
\* taps kept in order; in both cases lastTapTime is the time of the tap.
C1_TapRestartsOrAppends ==
    [][TapStep =>
          /\ lastTapTime' = now
          /\ IF now - lastTapTime > 3000
             THEN tapTimes' = << now >>
             ELSE tapTimes' = Append(tapTimes, now)]_vars

\* A tap has just restarted the session and dropped at least two earlier taps.
C1_Witness == Len(tapTimes) = 1 /\ lastTapTime = now /\ discarded >= 2

\* C2: the BPM is 0 whenever the session holds fewer than 4 taps.
C2_NoBpmBelowFourTaps == bpm # Num(0) => Len(tapTimes) >= 4

\* A tap has just restarted the session after one of at least 4 taps, which
\* had a BPM.
C2_Witness == Len(tapTimes) = 1 /\ discarded >= 4 /\ bpm = Num(0)

StrictlyIncreasing(s) == \A i \in 1 .. (Len(s) - 1) : s[i] < s[i + 1]

\* C3: with at least 4 taps of strictly increasing times in the session, the
\* BPM is a finite integer greater than 0.
C3_BpmFinitePositive ==
    (Len(tapTimes) >= 4 /\ StrictlyIncreasing(tapTimes))
        => (bpm.kind = "num" /\ bpm.val > 0)

\* The k-th smallest of the intervals ivs, by counting.
ClaimKth(ivs, k) ==
    CHOOSE v \in {ivs[i] : i \in DOMAIN ivs} :
        /\ Cardinality({i \in DOMAIN ivs : ivs[i] < v}) < k
        /\ k <= Cardinality({i \in DOMAIN ivs : ivs[i] <= v})

\* Twice the median: the middle value, or the sum of the two middle values.
ClaimMedian2(ivs) ==
    IF Len(ivs) % 2 = 1
    THEN 2 * ClaimKth(ivs, (Len(ivs) + 1) \div 2)
    ELSE ClaimKth(ivs, Len(ivs) \div 2) + ClaimKth(ivs, Len(ivs) \div 2 + 1)

\* The indices of the intervals d with 0.7 * m <= d <= 1.3 * m.
ClaimKept(ivs) ==
    {i \in DOMAIN ivs : 20 * ivs[i] >= 7 * ClaimMedian2(ivs)
                        /\ 20 * ivs[i] <= 13 * ClaimMedian2(ivs)}

RECURSIVE ClaimSumOver(_, _)
ClaimSumOver(ivs, idx) ==
    IF idx = {} THEN 0
    ELSE LET i == CHOOSE j \in idx : TRUE IN ivs[i] + ClaimSumOver(ivs, idx \ {i})

\* round(60000 / A) for the mean A of the kept intervals: the integer r with
\* r - 1/2 <= 60000 / A < r + 1/2.  The mean of no interval is 0 / 0, and a
\* mean of 0 divides by 0.
ClaimBpm(taps) ==
    LET ivs == [i \in 1 .. (Len(taps) - 1) |-> taps[i + 1] - taps[i]]
        kept == ClaimKept(ivs)
        k == Cardinality(kept)
        total == ClaimSumOver(ivs, kept)
    IN  IF k = 0 THEN NaN
        ELSE IF total = 0 THEN Infinity
        ELSE Num(CHOOSE r \in 0 .. ((120000 * k) \div total + 1) :
                    /\ (2 * r - 1) * total <= 120000 * k
                    /\ 120000 * k < (2 * r + 1) * total)

\* C4: with at least 5 taps in the session, the BPM is round(60000 / A), A the
\* mean of the intervals within 30% of the median of all intervals of the
\* session.
C4_BpmIsFilteredMean == Len(tapTimes) >= 5 => bpm = ClaimBpm(tapTimes)

\* A session of at least 5 taps in which the filter drops an interval and
\* keeps another, and the BPM is a number.
C4_Witness ==
    /\ Len(tapTimes) >= 5
    /\ bpm.kind = "num"
    /\ LET ivs == Intervals(tapTimes)
       IN  /\ ClaimKept(ivs) # {}
           /\ ClaimKept(ivs) # DOMAIN ivs

----------------------------------------------------------------------------
\* Properties of the beat grid.

\* C5: handling a tap always terminates; grid generation never loops without end.
C5_TapTerminates == ~hung

\* C6: every marker of the grid has 0 <= time <= trackDuration.
C6_MarkersWithinTrack ==
    \A i \in DOMAIN beatMarkers :
        /\ 0 <= beatMarkers[i].time
        /\ beatMarkers[i].time <= audioBuffer.duration * beatMarkers[i].den

\* C7: the grid is strictly ascending by time.
C7_GridStrictlyAscending ==
    \A i \in 1 .. (Len(beatMarkers) - 1) : beatMarkers[i].time < beatMarkers[i + 1].time

\* A grid with at least two markers before the anchor and one from it on.
C7_Witness ==
    /\ \E i \in DOMAIN beatMarkers : beatMarkers[i].position <= -1
    /\ \E i \in DOMAIN beatMarkers : beatMarkers[i].position >= 1

\* The position brought into 1..4 by adding 4 as often as it takes; a position
\* above 0 is left as it is.
ClaimNormalized(p) ==
    IF p > 0 THEN p
    ELSE CHOOSE q \in 1 .. 4 : \E k \in 1 .. (1 - p) : q = p + 4 * k

\* C8: a marker is a main beat iff its normalized position is 1 modulo 4.
C8_MainBeatIffPositionOneModFour ==
    \A i \in DOMAIN beatMarkers :
        beatMarkers[i].isMainBeat <=> (ClaimNormalized(beatMarkers[i].position) % 4 = 1)

\* A grid with a main beat before the anchor, the main beat at the anchor and a
\* minor beat after it.
C8_Witness ==
    /\ \E i \in DOMAIN beatMarkers :
          beatMarkers[i].position <= 0 /\ beatMarkers[i].isMainBeat
    /\ \E i \in DOMAIN beatMarkers :
          beatMarkers[i].position = 1 /\ beatMarkers[i].isMainBeat
    /\ \E i \in DOMAIN beatMarkers :
          beatMarkers[i].position = 2 /\ ~beatMarkers[i].isMainBeat

\* C9: the anchor of a grid generated at a tap is 0 when the deck is not playing
\* and tapTimes[0] - (audio clock - startTime) when it is, in ms; the marker of
\* position p lies p - 1 beat intervals from that anchor.
C9_AnchorFormula ==
    [][(TapStep /\ ret') =>
          LET anchor == IF isPlaying THEN tapTimes'[1] - (audioTime - startTime) ELSE 0
              n == Len(tapTimes') - 1
              total == tapTimes'[Len(tapTimes')] - tapTimes'[1]
          IN  /\ firstTapTime' = anchor
              /\ \A i \in DOMAIN beatMarkers' :
                    /\ beatMarkers'[i].den = n
                    /\ beatMarkers'[i].time
                         = anchor * n + (beatMarkers'[i].position - 1) * total]_vars

\* A grid was just generated while playing, from a session of at least 3 taps.
C9_Witness ==
    /\ ret /\ isPlaying /\ steady /\ lastTapTime = now
    /\ Len(tapTimes) >= 3
    /\ tapTimes[1] < now
    /\ beatMarkers # << >>

\* C10: while the deck plays without seeking, the anchor of the grid a tap
\* generates is the position in the track at which the first tap of the session
\* was made, and a later tap of the session does not move it.  The position of
\* the first tap is its time on the audio clock less startTime; the audio clock
\* is performance.now() less the offset now - audioTime.
C10_AnchorIsFirstTapPosition ==
    [][(TapStep /\ steady' /\ ret') =>
          /\ firstTapTime' = (tapTimes'[1] - (now - audioTime)) - startTime
          /\ (Len(tapTimes) >= 2 => firstTapTime' = firstTapTime)]_vars

----------------------------------------------------------------------------
\* The grid a tap generates, said from the taps alone.  The beat interval D is
\* (last tap - first tap) / (taps - 1) ms; ClaimSpan is its numerator and
\* ClaimDen its denominator, so k * D is the fraction k * ClaimSpan / ClaimDen.

ClaimSpan(taps) == taps[Len(taps)] - taps[1]
ClaimDen(taps) == Len(taps) - 1

\* C11: a tap that generates a grid while the deck is not playing (anchor 0),
\* with a beat interval D > 0 and a track of duration T, leaves exactly the
\* markers at k * D for every integer k >= 0 with k * D < T, in this order; the
\* k-th has position k + 1 and is a main beat iff k mod 4 = 0.
C11_GridFromTrackStart ==
    [][(TapStep /\ ret' /\ ~isPlaying /\ ClaimSpan(tapTimes') > 0) =>
        LET span == ClaimSpan(tapTimes')
            den == ClaimDen(tapTimes')
            T == audioBuffer.duration
            ks == {k \in 0 .. ((T * den) \div span) : k * span < T * den}
        IN  /\ Len(beatMarkers') = Cardinality(ks)
            /\ \A k \in ks :
                  beatMarkers'[k + 1] = [time |-> k * span, den |-> den,
                                         isMainBeat |-> (k % 4 = 0),
                                         position |-> k + 1]]_vars

\* A grid generated on a deck that never played, long enough to hold the
\* second main beat.
C11_Witness ==
    /\ ret /\ ~audioSource /\ lastTapTime = now /\ firstTapTime = 0
    /\ Len(beatMarkers) >= 5
    /\ beatMarkers[5].isMainBeat /\ beatMarkers[5].position = 5

\* C12: a tap that generates a grid with an anchor A inside the track,
\* 0 < A < T, and a beat interval D > 0 leaves exactly one marker at A + k * D
\* for every integer k with 0 <= A + k * D < T and no other; that marker has
\* position k + 1.  A backward step that lands exactly on 0 is kept, the
\* negative ones are dropped.
C12_GridAroundAnchor ==
    [][LET A == tapTimes'[1] - (audioTime - startTime)
           span == ClaimSpan(tapTimes')
           den == ClaimDen(tapTimes')
           T == audioBuffer.duration
           ks == {k \in (0 - ((A * den) \div span)) .. ((T * den) \div span) :
                    /\ 0 <= A * den + k * span
                    /\ A * den + k * span < T * den}
       IN  (TapStep /\ ret' /\ isPlaying /\ 0 < A /\ A < T /\ span > 0) =>
              /\ Len(beatMarkers') = Cardinality(ks)
              /\ \A k \in ks : \E i \in DOMAIN beatMarkers' :
                    /\ beatMarkers'[i].time = A * den + k * span
                    /\ beatMarkers'[i].den = den
                    /\ beatMarkers'[i].position = k + 1]_vars

\* A grid around an anchor inside the track whose backward pass landed on 0
\* and whose forward pass went beyond the anchor.
C12_Witness ==
    /\ ret /\ lastTapTime = now
    /\ 0 < firstTapTime /\ firstTapTime < audioBuffer.duration
    /\ \E i \in DOMAIN beatMarkers :
          beatMarkers[i].time = 0 /\ beatMarkers[i].position <= 0
    /\ \E i \in DOMAIN beatMarkers : beatMarkers[i].position >= 2

----------------------------------------------------------------------------
\* Loading a track.

\* A step of loadTrack: the deck holds another AudioBuffer object.
LoadStep == audioBuffer'.id # audioBuffer.id

\* C13: when loadTrack succeeds, the tap session is empty, the BPM is 0 and the
\* beat grid is empty, whatever taps were recorded before.
C13_LoadResetsTapState ==
    [][LoadStep => /\ tapTimes' = << >>
                   /\ bpm' = Num(0)
                   /\ beatMarkers' = << >>]_vars

----------------------------------------------------------------------------
\* The redraw loop of a deck.

\* C14: at every moment at most one redraw callback of the deck is pending,
\* under every interleaving of play, pause, stop at the end of the track,
\* seek, load and frame callbacks.
C14_AtMostOnePendingRedraw == Cardinality(pending) <= 1

\* A step of a redraw callback that does anything: no deck operation runs,
\* and the pending callbacks or the stored handle change.
FrameStep ==
    /\ deckOps' = deckOps
    /\ pending' # pending \/ animationFrame' # animationFrame

\* C15: while the deck is not playing, a redraw callback that still fires
\* returns without drawing and without scheduling a further frame (it draws
\* only on the path that requests the next frame): no callback is added, the
\* stored handle becomes null and the deck stays as it is.  And pause() and
\* stop(), the steps that end playback other than a load, cancel the callback
\* of the handle stored in animationFrame and set it to null.
C15_NoRedrawWhileNotPlaying ==
    [][/\ (FrameStep /\ ~isPlaying) =>
             /\ pending' \subseteq pending
             /\ animationFrame' = 0
             /\ ~isPlaying'
             /\ UNCHANGED << pauseTime, startTime >>
       /\ (isPlaying /\ ~isPlaying' /\ ~LoadStep) =>
             /\ animationFrame' = 0
             /\ animationFrame \notin pending']_vars

\* The deck was paused or stopped, which cleared the stored handle, and a
\* callback of an earlier redraw loop is still to fire.
C15_Witness == ~isPlaying /\ audioSource /\ animationFrame = 0 /\ pending # {}

----------------------------------------------------------------------------
\* Degenerate inputs.

\* C16: when the average interval of a session of at least 4 taps is zero,
\* every tap having the same timestamp, the BPM is reported as 0, not as
\* Infinity or NaN.
C16_ZeroIntervalGivesZeroBpm ==
    (Len(tapTimes) >= 4 /\ \A i \in DOMAIN tapTimes : tapTimes[i] = tapTimes[1])
        => bpm = Num(0)

\* C17: when the duration of the track is zero or negative the grid is empty
\* for every anchor, on a deck that is not playing (anchor 0) and on one that
\* plays with a positive anchor.
C17_NoGridForNonPositiveDuration ==
    (audioBuffer.loaded /\ audioBuffer.duration <= 0) => beatMarkers = << >>

----------------------------------------------------------------------------
\* What a tap does to the grid.

\* C18: handleTapTempo returns true, with the grid replaced wholesale by the
\* markers of the new session, exactly when a track is loaded and the session
\* has at least 2 taps after the tap; otherwise it returns false and leaves
\* beatMarkers as they were.
C18_TapGeneratesIffLoadedAndTwoTaps ==
    [][TapStep =>
        LET generates == audioBuffer.loaded /\ Len(tapTimes') >= 2
        IN  /\ ret' = generates
            /\ ~generates => beatMarkers' = beatMarkers
            /\ generates =>
                  \A i \in DOMAIN beatMarkers' :
                     /\ beatMarkers'[i].den = ClaimDen(tapTimes')
                     /\ beatMarkers'[i].time - firstTapTime' * ClaimDen(tapTimes')
                          = (beatMarkers'[i].position - 1) * ClaimSpan(tapTimes')]_vars

----------------------------------------------------------------------------
\* The BPM of particular sessions.

\* p / q rounded to the nearest integer, a half upwards, for p >= 0 and q > 0.
ClaimRound(p, q) == (p \div q) + (IF 2 * (p % q) >= q THEN 1 ELSE 0)

\* C19: with exactly 4 taps t1 <= t2 <= t3 <= t4 nothing is filtered: the BPM
\* is round(60000 / mean of the 3 intervals) = round(180000 / (t4 - t1)), also
\* when one interval lies outside the band of 30% around the median.  With
\* t4 = t1 the quotient, as JavaScript computes it, is Infinity.
C19_FourTapsUnfiltered ==
    Len(tapTimes) = 4 =>
        bpm = IF tapTimes[4] = tapTimes[1] THEN Infinity
              ELSE Num(ClaimRound(180000, tapTimes[4] - tapTimes[1]))

\* Four taps of which one interval is twice another: the longer one is more
\* than 30% above the median.
C19_Witness ==
    /\ Len(tapTimes) = 4 /\ bpm.kind = "num"
    /\ \E i, j \in 1 .. 3 :
          /\ tapTimes[j + 1] - tapTimes[j] > 0
          /\ tapTimes[i + 1] - tapTimes[i] >= 2 * (tapTimes[j + 1] - tapTimes[j])
    /\ \E i, j \in 1 .. 3 :
          i # j /\ tapTimes[i + 1] - tapTimes[i] = tapTimes[j + 1] - tapTimes[j]

\* The session has at least 4 intervals, all equal to I except exactly one,
\* and that one differs from the median by more than 30% of the median.
ClaimOneOutlier(taps, I) ==
    /\ Len(taps) >= 5
    /\ \E x \in 1 .. (Len(taps) - 1) :
          /\ \A i \in 1 .. (Len(taps) - 1) : i # x => taps[i + 1] - taps[i] = I
          /\ taps[x + 1] - taps[x] # I
          /\ LET X == taps[x + 1] - taps[x]
                 median2 == ClaimMedian2(Intervals(taps))
             IN  20 * X < 7 * median2 \/ 20 * X > 13 * median2

\* C20: with at least 4 intervals that all equal I except exactly one, which
\* is more than 30% away from the median, the outlier is dropped and the BPM
\* is round(60000 / I); with I = 0 that quotient is Infinity in JavaScript.
C20_SingleOutlierDropped ==
    \A I \in {tapTimes[i + 1] - tapTimes[i] : i \in 1 .. (Len(tapTimes) - 1)} :
        ClaimOneOutlier(tapTimes, I) =>
            bpm = IF I = 0 THEN Infinity ELSE Num(ClaimRound(60000, I))

\* A session with one interval twice the others, and its BPM that of the others.
C20_Witness ==
    /\ Len(tapTimes) >= 5
    /\ tapTimes[2] - tapTimes[1] > 0
    /\ ClaimOneOutlier(tapTimes, tapTimes[2] - tapTimes[1])
    /\ bpm.kind = "num"
    /\ tapTimes[Len(tapTimes)] - tapTimes[Len(tapTimes) - 1]
         = 2 * (tapTimes[2] - tapTimes[1])

----------------------------------------------------------------------------
\* The generator as a function.

\* C21: generateBeatsFromManualTaps run again with the same tap session, the
\* same isPlaying, startTime and currentTime and the same track yields the
\* marker sequence it yielded before, whatever grid was there before either
\* call.  The grid at hand came from the same arguments when the last tap
\* generated it at this very time, or when the deck is not playing (currentTime
\* is then not read).
C21_GenerationIsPure ==
    [][(/\ regenerated' /\ tapTimes' = tapTimes /\ now' = now
        /\ ret /\ (lastTapTime = now \/ ~isPlaying)) =>
          /\ beatMarkers' = beatMarkers
          /\ firstTapTime' = firstTapTime
          /\ ~hung']_vars

\* The generator ran twice on the arguments of a tap made while playing, over
\* a grid with markers on both sides of the anchor.
C21_Witness ==
    /\ regenerated /\ ret /\ lastTapTime = now /\ isPlaying
    /\ \E i \in DOMAIN beatMarkers : beatMarkers[i].position <= 0
    /\ \E i \in DOMAIN beatMarkers : beatMarkers[i].position >= 1

----------------------------------------------------------------------------
\* What writes the beat grid.

\* What a tap does to the session, seen from outside: the session changes and
\* ends with the tap made now, and no field of the deck is written.
ClaimTapEffect ==
    /\ tapTimes' # tapTimes
    /\ tapTimes' # << >> /\ tapTimes'[Len(tapTimes')] = now
    /\ lastTapTime' = now
    /\ deckOps' = deckOps
    /\ UNCHANGED deckVars

\* C22: beatMarkers, tapTimes and bpm change only through a tap, or, for
\* beatMarkers, through a track load that clears it: play, pause, stop, a
\* click on the waveform, resize and every redraw leave the three unchanged.
C22_GridWrittenByTapOrLoadOnly ==
    [][/\ (beatMarkers' # beatMarkers \/ tapTimes' # tapTimes \/ bpm' # bpm) =>
             \/ ClaimTapEffect
             \/ /\ LoadStep
                /\ beatMarkers' = << >> /\ tapTimes' = tapTimes /\ bpm' = bpm
       /\ ((deckOps' # deckOps /\ ~LoadStep) \/ FrameStep) =>
             UNCHANGED << beatMarkers, tapTimes, bpm >>]_vars

\* A deck that was played and paused, some time after the last tap, holds the
\* BPM and the grid of its taps.
C22_Witness ==
    /\ ~isPlaying /\ audioSource /\ pauseTime > 0 /\ animationFrame = 0
    /\ beatMarkers # << >> /\ Len(tapTimes) >= 4 /\ bpm.kind = "num" /\ bpm.val > 0
    /\ lastTapTime < now

----------------------------------------------------------------------------
\* The zoom view.

\* The markers of the grid inside the window of 4 s around e ms, by index.
ClaimInWindow(e) ==
    {i \in DOMAIN beatMarkers :
        /\ (e - 2000) * beatMarkers[i].den <= beatMarkers[i].time
        /\ beatMarkers[i].time <= (e + 2000) * beatMarkers[i].den}

\* C23: on a position update with elapsed time e, the markers drawn in the
\* zoom view are exactly the markers of the grid with e - 2 s <= time <= e + 2 s,
\* both bounds included, each once and in the order of the grid, each at the
\* relative offset (time - (e - 2 s)) / 4 s, which lies in [0, 1].
C23_ZoomShowsWindow ==
    (isPlaying /\ audioBuffer.loaded) =>
        LET e == audioTime - startTime
            drawn == ZoomView
        IN  /\ Len(drawn) = Cardinality(ClaimInWindow(e))
            /\ \A i \in ClaimInWindow(e) :
                  LET j == Cardinality({k \in ClaimInWindow(e) : k <= i})
                  IN  /\ drawn[j].time = beatMarkers[i].time
                      /\ drawn[j].den = beatMarkers[i].den
                      /\ drawn[j].main = beatMarkers[i].isMainBeat
                      /\ drawn[j].left * 4000 * beatMarkers[i].den
                           = (beatMarkers[i].time - (e - 2000) * beatMarkers[i].den)
                             * drawn[j].leftDen
                      /\ 0 <= drawn[j].left /\ drawn[j].left <= drawn[j].leftDen

\* A playing deck whose grid has a marker at the very end of the window, one
\* beyond it and several inside.
C23_Witness ==
    /\ isPlaying /\ audioBuffer.loaded
    /\ \E i \in DOMAIN beatMarkers :
          beatMarkers[i].time = (audioTime - startTime + 2000) * beatMarkers[i].den
    /\ \E i \in DOMAIN beatMarkers :
          beatMarkers[i].time > (audioTime - startTime + 2000) * beatMarkers[i].den
    /\ Len(ZoomView) >= 3

----------------------------------------------------------------------------
\* The two decks.

\* A step that turns to the other deck.
SwapStep == other' = ThisDeck /\ ThisDeck' = other

\* What the claim names of the other deck.
ClaimOtherDeck ==
    [beatManager |-> OtherBeatManager(other, ThisDeck),
     isPlaying |-> other.isPlaying,
     startTime |-> other.startTime,
     pauseTime |-> other.pauseTime]

\* C24: a tap, play, pause, stop, seek, load or redraw on one deck leaves the
\* other deck's tap session, lastTapTime, bpm, beat grid, isPlaying, startTime
\* and pauseTime unchanged, under every interleaving of events on the two.
C24_DecksIndependent ==
    [][~SwapStep => ClaimOtherDeck' = ClaimOtherDeck]_vars

\* Both decks hold a grid of their own taps; one plays, the other does not.
C24_Witness ==
    /\ beatMarkers # << >> /\ other.beatMarkers # << >>
    /\ tapTimes # other.tapTimes
    /\ isPlaying # other.isPlaying

----------------------------------------------------------------------------
\* Playback rate.

\* C25: while the deck plays and redraws, the elapsed position it centers the
\* zoom window on (audio clock - startTime) is the position of the audio in
\* the track, whatever rate the speed slider has set.
C25_ElapsedIsAudioPosition ==
    (isPlaying /\ audioBuffer.loaded /\ audioTime - startTime < audioBuffer.duration)
        => audioTime - startTime = audioPos

----------------------------------------------------------------------------
\* Loading a file.

\* The state of the deck the claim names: the buffer, the playback fields,
\* the audio nodes and the BeatManager.
ClaimDeckState ==
    << audioBuffer, audioSource, isPlaying, startTime, pauseTime, animationFrame,
       pending, tapTimes, lastTapTime, bpm, beatMarkers >>

\* The files the claim says loadTrack refuses.
ClaimRefused(f) ==
    \/ f.size > 100 * 1024 * 1024
    \/ f.type \notin validMimeTypes
    \/ ~f.readable
    \/ ~f.decodable

\* C26: loadTrack refuses a file over 100 MB, of a MIME type outside the
\* whitelist, or that fails to read or decode: it shows an error and leaves
\* the state of the deck as it was.  A readable, decodable audio file of
\* exactly 100 MB is loaded.
C26_BadFileRefused ==
    [][/\ (ClaimRefused(file') /\ (file' # file \/ shownError' # shownError))
            => (shownError' # "" /\ ClaimDeckState' = ClaimDeckState)
       /\ (~ClaimRefused(file') /\ file' # file)
            => (audioBuffer'.id = audioBuffer.id + 1 /\ shownError' = shownError)]_vars

\* A playing deck has refused a file; its track came from a file of exactly
\* the limit, the smallest size in Files.
C26_Witness ==
    /\ ClaimRefused(file) /\ shownError # ""
    /\ isPlaying /\ audioBuffer.loaded

----------------------------------------------------------------------------
\* Phase of the main beats.

\* Markers i < j are consecutive main beats of the grid.
ClaimConsecutiveMain(i, j) ==
    /\ i < j
    /\ beatMarkers[i].isMainBeat /\ beatMarkers[j].isMainBeat
    /\ \A k \in (i + 1) .. (j - 1) : ~beatMarkers[k].isMainBeat

\* C27: in the time-sorted grid the anchor marker (position 1) is a main beat
\* and any two consecutive main beats, on either side of the anchor or across
\* it, have exactly 3 other markers between them.
C27_MainBeatsEveryFourth ==
    /\ \A i \in 1 .. Len(beatMarkers) :
            beatMarkers[i].position = 1 => beatMarkers[i].isMainBeat
    /\ \A i, j \in 1 .. Len(beatMarkers) :
            ClaimConsecutiveMain(i, j) => j - i = 4

\* A grid with a main beat before the anchor, the anchor, and one after it.
C27_Witness ==
    \E i, j, k \in 1 .. Len(beatMarkers) :
        /\ ClaimConsecutiveMain(i, j) /\ ClaimConsecutiveMain(j, k)
        /\ beatMarkers[j].position = 1

----------------------------------------------------------------------------
\* The interval of the grid and the interval of the tempo.

\* C28: after a tap that gave a tempo and a grid (track loaded, 4 taps or
\* more), consecutive markers of the grid are one estimator interval apart:
\* the average of the intervals filterOutliers keeps, from which the BPM is
\* rounded.
C28_GridSpacingIsTempoInterval ==
    (ret /\ ~hung /\ ~regenerated /\ audioBuffer.loaded /\ Len(tapTimes) >= 4
        /\ bpm.kind = "num")
        => LET validIntervals == filterOutliers(Intervals(tapTimes))
           IN  \A i \in 1 .. (Len(beatMarkers) - 1) :
                   (beatMarkers[i + 1].time - beatMarkers[i].time) * Len(validIntervals)
                       = Sum(validIntervals) * beatMarkers[i].den

----------------------------------------------------------------------------
\* Shape of the tap session.

\* C29: tapTimes is non-decreasing, consecutive taps of the session are at
\* most 3000 ms apart, and lastTapTime is the last tap of a non-empty session.
C29_SessionShape ==
    /\ \A i \in 1 .. (Len(tapTimes) - 1) :
            /\ tapTimes[i] <= tapTimes[i + 1]
            /\ tapTimes[i + 1] - tapTimes[i] <= 3000
    /\ tapTimes # << >> => lastTapTime = tapTimes[Len(tapTimes)]

\* A session that holds a pause of exactly 3000 ms between two taps.
C29_Witness ==
    \E i \in 1 .. (Len(tapTimes) - 1) : tapTimes[i + 1] - tapTimes[i] = 3000

----------------------------------------------------------------------------
\* Pause and resume.

\* The deck starts to play: only play() sets isPlaying.
ClaimPlayStep == ~isPlaying /\ isPlaying'

\* pause() runs: the deck stops playing, and neither a load nor a redraw
\* callback stopped it.
ClaimPauseStep == isPlaying /\ ~isPlaying' /\ ~LoadStep /\ ~FrameStep

\* stop() runs at the end of the track, called by a redraw callback.
ClaimStopStep == isPlaying /\ ~isPlaying' /\ FrameStep

\* C30: pause() records pauseTime = audio clock - startTime; the next play()
\* sets startTime so that the elapsed position right after it is pauseTime,
\* and starts the source there; stop() at the end of the track sets pauseTime
\* to 0, so that the next play() starts at elapsed 0.  A deck that keeps
\* playing through a deck operation keeps its source, its redraw loop and its
\* pauseTime (play() does nothing while playing), and a deck that stays
\* stopped through one gets no redraw loop (pause() is the branch of the
\* button taken only while playing).
C30_ResumeAtPausePosition ==
    [][/\ ClaimPauseStep => pauseTime' = audioTime - startTime
       /\ ClaimPlayStep => /\ audioTime' - startTime' = pauseTime
                           /\ audioPos' = pauseTime
       /\ ClaimStopStep => pauseTime' = 0
       /\ (isPlaying /\ isPlaying' /\ deckOps' # deckOps)
            => (pending' = pending /\ audioSource' = audioSource /\ pauseTime' = pauseTime)
       /\ (~isPlaying /\ ~isPlaying' /\ deckOps' # deckOps)
            => (animationFrame' = animationFrame \/ animationFrame' = 0)]_vars

\* The deck plays again after a pause in mid-track, at the paused position.
C30_Witness ==
    /\ isPlaying /\ pauseTime > 0 /\ pauseTime < audioBuffer.duration
    /\ audioTime - startTime = pauseTime /\ audioPos = pauseTime

====
